---- MODULE Spec2Model ----
(***************************************************************************)
(* Model of the membership core of the IAM domain: Group, GroupMember,     *)
(* GroupMemberService and the validate helpers they call.                  *)
(*                                                                         *)
(* A GroupMember is the pair <<kind, name>> with kind "User" or "Group".   *)
(* A Group value is [tenant, name, members]; a User value is               *)
(* [tenant, username, enabled] where enabled is what is_enabled() answers  *)
(* for that snapshot.  Results are strings: "Ok", "True", "False" for      *)
(* Ok(()), Ok(true), Ok(false); "NotEqual", "Recursion", "NotEnabled",     *)
(* "RepoError" for the Err values; "Diverge" for a call that never         *)
(* returns (unbounded recursion).                                          *)
(***************************************************************************)
EXTENDS Integers, Sequences, FiniteSets, TLC

\* ---------------------------------------------------------------- bounds
NumGroups == 3
NumUsers == 1
MaxEdges == 2

GroupNames == 1..NumGroups
Usernames == 1..NumUsers
HomeTenant == "t1"
ForeignTenant == "t2"
Tenants == {HomeTenant, ForeignTenant}
Callers == {"c1", "c2"}

VARIABLES groups, users, last, callers, role, the_tenant, validity, now, password

vars == <<groups, users, last, callers, role, the_tenant, validity, now, password>>

\* ------------------------------------------------------------ GroupMember
GroupMemberOfGroup(group) == <<"Group", group.name>>

GroupMemberOfUser(user) == <<"User", user.username>>

Members == {<<"Group", n>> : n \in GroupNames} \cup {<<"User", u>> : u \in Usernames}

Contains(members, member) == \E i \in DOMAIN members : members[i] = member

Retain(members, member) == SelectSeq(members, LAMBDA m : m # member)

\* --------------------------------------------------------------- validate
equals_always_ok(value, expected) == "Ok"

equals(value, expected) == IF value # expected THEN "NotEqual" ELSE "Ok"

is_true(value) == IF ~value THEN "Ok" ELSE "Generic"

is_false_always_ok(value) == "Ok"

is_false(value) == IF ~value THEN "Ok" ELSE "Generic"

\* ----------------------------------------------------------- repositories
\* The group repository holds the groups of HomeTenant; status is "present",
\* "absent" (find_by_name answers NotFound) or "faulty" (any other error).
find_by_name(repo, tenant, name) ==
    IF tenant # HomeTenant \/ name \notin DOMAIN repo \/ repo[name].status = "absent"
    THEN [status |-> "NotFound"]
    ELSE IF repo[name].status = "faulty"
    THEN [status |-> "Error"]
    ELSE [status |-> "Ok",
          group |-> [tenant |-> tenant, name |-> name, members |-> repo[name].members]]

\* The user repository: "enabled" / "disabled" (found), "absent", "faulty".
find_by_username(urepo, tenant, username) ==
    IF tenant # HomeTenant \/ username \notin DOMAIN urepo \/ urepo[username] = "absent"
    THEN [status |-> "NotFound"]
    ELSE IF urepo[username] = "faulty"
    THEN [status |-> "Error"]
    ELSE [status |-> "Ok", enabled |-> (urepo[username] = "enabled")]

\* Depth of nested calls after which a traversal has entered some stored group
\* twice, hence repeats itself forever.
Fuel == NumGroups

\* ---------------------------------------------------- GroupMemberService
confirm_user_snapshot(urepo, group, user) ==
    LET found == find_by_username(urepo, group.tenant, user.username)
    IN IF found.status = "Ok" THEN (IF user.enabled THEN "True" ELSE "False")
       ELSE IF found.status = "NotFound" THEN "False"
       ELSE "RepoError"

confirm_user(urepo, group, user) ==
    LET found == find_by_username(urepo, group.tenant, user.username)
    IN IF found.status = "Ok" THEN (IF found.enabled THEN "True" ELSE "False")
       ELSE IF found.status = "NotFound" THEN "False"
       ELSE "RepoError"

RECURSIVE is_member_group_same_group(_, _, _, _, _)
is_member_group_same_group(repo, group, member, i, fuel) ==
    IF i > Len(group.members) THEN [res |-> "False", lookups |-> <<>>]
    ELSE
      LET gm == group.members[i]
          rest == is_member_group_same_group(repo, group, member, i + 1, fuel)
      IN IF gm = member THEN [res |-> "True", lookups |-> <<>>]
         ELSE IF gm[1] = "Group" THEN
           LET found == find_by_name(repo, group.tenant, gm[2])
           IN IF found.status = "Ok" THEN
                LET r == IF fuel = 0 THEN [res |-> "Diverge", lookups |-> <<>>]
                         ELSE is_member_group_same_group(repo, group, member, 1, fuel - 1)
                IN IF r.res = "False"
                   THEN [res |-> rest.res, lookups |-> <<gm[2]>> \o r.lookups \o rest.lookups]
                   ELSE [res |-> r.res, lookups |-> <<gm[2]>> \o r.lookups]
              ELSE IF found.status = "NotFound"
              THEN [res |-> rest.res, lookups |-> <<gm[2]>> \o rest.lookups]
              ELSE [res |-> "RepoError", lookups |-> <<gm[2]>>]
         ELSE rest

is_member_group_direct(repo, group, member, i, fuel) ==
    [res |-> IF Contains(group.members, member) THEN "True" ELSE "False", lookups |-> <<>>]

\* The loop of is_member_group from member i on; lookups lists the names
\* handed to find_by_name, in order.
RECURSIVE is_member_group_from(_, _, _, _, _)
is_member_group_from(repo, group, member, i, fuel) ==
    IF i > Len(group.members) THEN [res |-> "False", lookups |-> <<>>]
    ELSE
      LET gm == group.members[i]
          rest == is_member_group_from(repo, group, member, i + 1, fuel)
      IN IF gm = member THEN [res |-> "True", lookups |-> <<>>]
         ELSE IF gm[1] = "Group" THEN
           LET found == find_by_name(repo, group.tenant, gm[2])
           IN IF found.status = "Ok" THEN
                LET r == IF fuel = 0 THEN [res |-> "Diverge", lookups |-> <<>>]
                         ELSE is_member_group_from(repo, found.group, member, 1, fuel - 1)
                IN IF r.res = "False"
                   THEN [res |-> rest.res, lookups |-> <<gm[2]>> \o r.lookups \o rest.lookups]
                   ELSE [res |-> r.res, lookups |-> <<gm[2]>> \o r.lookups]
              ELSE IF found.status = "NotFound"
              THEN [res |-> rest.res, lookups |-> <<gm[2]>> \o rest.lookups]
              ELSE [res |-> "RepoError", lookups |-> <<gm[2]>>]
         ELSE rest

is_member_group_run(repo, group, member) == is_member_group_from(repo, group, member, 1, Fuel)

is_member_group(repo, group, member) == is_member_group_run(repo, group, member).res

RECURSIVE is_member_run(_, _, _, _, _)
RECURSIVE is_user_in_nested_group_from(_, _, _, _, _, _)
RECURSIVE is_user_in_nested_group_swallow(_, _, _, _, _, _)

is_user_in_nested_group_swallow(repo, urepo, group, user, i, fuel) ==
    IF i > Len(group.members) THEN [res |-> "False", lookups |-> <<>>]
    ELSE
      LET gm == group.members[i]
          rest == is_user_in_nested_group_swallow(repo, urepo, group, user, i + 1, fuel)
      IN IF gm[1] = "Group" THEN
           LET found == find_by_name(repo, group.tenant, gm[2])
           IN IF found.status = "Ok" THEN
                LET r == IF fuel = 0 THEN [res |-> "Diverge", lookups |-> <<>>]
                         ELSE is_member_run(repo, urepo, found.group, user, fuel - 1)
                IN IF r.res = "False"
                   THEN [res |-> rest.res, lookups |-> <<gm[2]>> \o r.lookups \o rest.lookups]
                   ELSE [res |-> r.res, lookups |-> <<gm[2]>> \o r.lookups]
              ELSE [res |-> rest.res, lookups |-> <<gm[2]>> \o rest.lookups]
         ELSE rest

is_user_in_nested_group_from(repo, urepo, group, user, i, fuel) ==
    IF i > Len(group.members) THEN [res |-> "False", lookups |-> <<>>]
    ELSE
      LET gm == group.members[i]
          rest == is_user_in_nested_group_from(repo, urepo, group, user, i + 1, fuel)
      IN IF gm[1] = "Group" THEN
           LET found == find_by_name(repo, group.tenant, gm[2])
           IN IF found.status = "Ok" THEN
                LET r == IF fuel = 0 THEN [res |-> "Diverge", lookups |-> <<>>]
                         ELSE is_member_run(repo, urepo, found.group, user, fuel - 1)
                IN IF r.res = "False"
                   THEN [res |-> rest.res, lookups |-> <<gm[2]>> \o r.lookups \o rest.lookups]
                   ELSE [res |-> r.res, lookups |-> <<gm[2]>> \o r.lookups]
              ELSE IF found.status = "NotFound"
              THEN [res |-> rest.res, lookups |-> <<gm[2]>> \o rest.lookups]
              ELSE [res |-> "RepoError", lookups |-> <<gm[2]>>]
         ELSE rest

\* ------------------------------------------------------------------ Group
is_member_run_trusting_snapshot(repo, urepo, group, user, fuel) ==
    IF equals(user.tenant, group.tenant) # "Ok" THEN [res |-> "NotEqual", lookups |-> <<>>]
    ELSE IF is_true(user.enabled) # "Ok" THEN [res |-> "NotEnabled", lookups |-> <<>>]
    ELSE IF Contains(group.members, GroupMemberOfUser(user))
    THEN [res |-> "True", lookups |-> <<>>]
    ELSE is_user_in_nested_group_from(repo, urepo, group, user, 1, fuel)

is_member_run(repo, urepo, group, user, fuel) ==
    IF equals(user.tenant, group.tenant) # "Ok" THEN [res |-> "NotEqual", lookups |-> <<>>]
    ELSE IF is_true(user.enabled) # "Ok" THEN [res |-> "NotEnabled", lookups |-> <<>>]
    ELSE IF Contains(group.members, GroupMemberOfUser(user))
    THEN [res |-> confirm_user(urepo, group, user), lookups |-> <<>>]
    ELSE is_user_in_nested_group_from(repo, urepo, group, user, 1, fuel)

is_user_in_nested_group_run(repo, urepo, group, user) ==
    is_user_in_nested_group_from(repo, urepo, group, user, 1, Fuel)

is_user_in_nested_group(repo, urepo, group, user) ==
    is_user_in_nested_group_run(repo, urepo, group, user).res

is_member(repo, urepo, group, user) == is_member_run(repo, urepo, group, user, Fuel).res

add_group(repo, self, group) ==
    IF equals(group.tenant, self.tenant) # "Ok"
    THEN [res |-> "NotEqual", members |-> self.members]
    ELSE
      LET found == is_member_group(repo, group, GroupMemberOfGroup(self))
      IN IF found \notin {"True", "False"}
         THEN [res |-> found, members |-> self.members]
         ELSE IF is_false(found = "True") # "Ok"
         THEN [res |-> "Recursion", members |-> self.members]
         ELSE LET member == GroupMemberOfGroup(group)
              IN [res |-> "Ok",
                  members |-> IF ~Contains(self.members, member)
                              THEN Append(self.members, member)
                              ELSE self.members]

add_user_always_push(self, user) ==
    IF equals(user.tenant, self.tenant) # "Ok"
    THEN [res |-> "NotEqual", members |-> self.members]
    ELSE IF is_true(user.enabled) # "Ok"
    THEN [res |-> "NotEnabled", members |-> self.members]
    ELSE [res |-> "Ok", members |-> Append(self.members, GroupMemberOfUser(user))]

add_user(self, user) ==
    IF equals(user.tenant, self.tenant) # "Ok"
    THEN [res |-> "NotEqual", members |-> self.members]
    ELSE IF is_true(user.enabled) # "Ok"
    THEN [res |-> "NotEnabled", members |-> self.members]
    ELSE LET member == GroupMemberOfUser(user)
         IN [res |-> "Ok",
             members |-> IF ~Contains(self.members, member)
                         THEN Append(self.members, member)
                         ELSE self.members]

remove_group(self, group) ==
    IF equals(group.tenant, self.tenant) # "Ok"
    THEN [res |-> "NotEqual", members |-> self.members]
    ELSE [res |-> "Ok", members |-> Retain(self.members, GroupMemberOfGroup(group))]

remove_user_by_name(self, user) ==
    IF equals(user.tenant, self.tenant) # "Ok"
    THEN [res |-> "NotEqual", members |-> self.members]
    ELSE [res |-> "Ok",
          members |-> SelectSeq(self.members, LAMBDA m : m[2] # user.username)]

remove_user(self, user) ==
    IF equals(user.tenant, self.tenant) # "Ok"
    THEN [res |-> "NotEqual", members |-> self.members]
    ELSE [res |-> "Ok", members |-> Retain(self.members, GroupMemberOfUser(user))]

\* ------------------------------------------------------- values in play
\* The stored group, as find_by_name hands it out.
Stored(repo, name) == [tenant |-> HomeTenant, name |-> name, members |-> repo[name].members]

\* A group of another tenant, rebuilt with Group::hydrate.
ForeignGroups ==
    {[tenant |-> ForeignTenant, name |-> 1, members |-> ms] :
        ms \in {<<>>} \cup {<<<<"Group", k>>>> : k \in GroupNames}}

GroupOperands(repo) == {Stored(repo, n) : n \in GroupNames} \cup ForeignGroups

UserOperands == [tenant : Tenants, username : Usernames, enabled : BOOLEAN]

TotalEdges(repo) ==
    LET RECURSIVE Sum(_)
        Sum(n) == IF n = 0 THEN 0 ELSE Len(repo[n].members) + Sum(n - 1)
    IN Sum(NumGroups)

NoCaller == [pc |-> "idle", self |-> 0, nested |-> 0, members |-> <<>>, res |-> "none"]

\* ------------------------------------------------------------------ Init
\* Every group was made by Group::new and added to the repository; every user
\* is registered and enabled.
NoCall == [op |-> "none", self |-> 0, arg |-> [tenant |-> HomeTenant], res |-> "none",
           before |-> <<>>]

\* No Role has been built yet.
NoRole == [tenant |-> HomeTenant, name |-> 0, supports_nesting |-> FALSE,
           group |-> [tenant |-> HomeTenant, name |-> 0, members |-> <<>>]]

\* InvitationValidity::open_ended() / Validity::OpenEnded.
open_ended == <<"OpenEnded">>

\* A Tenant value is [status, invitations].
Tenant_new(status) == [status |-> status, invitations |-> <<>>]

\* PlainPassword::default(): the empty text, not yet judged strong.
PlainPassword_default == [chars |-> <<>>, is_strong |-> FALSE]

\* The aggregates that take no part in the membership operations.
Idle ==
    /\ role = NoRole
    /\ the_tenant = Tenant_new("Active")
    /\ validity = open_ended
    /\ now = 0
    /\ password = PlainPassword_default

Init ==
    /\ groups = [n \in GroupNames |-> [status |-> "present", members |-> <<>>]]
    /\ users = [u \in Usernames |-> "enabled"]
    /\ last = NoCall
    /\ callers = [c \in Callers |-> NoCaller]
    /\ Idle

\* Save the group after a successful call (GroupRepository::update).
Saved(repo, name, out) ==
    IF out.res = "Ok" THEN [repo EXCEPT ![name].members = out.members] ELSE repo

Record(op, name, arg, out) ==
    [op |-> op, self |-> name, arg |-> arg, res |-> out.res, before |-> groups[name].members]

AddGroup(s, g) ==
    LET out == add_group(groups, Stored(groups, s), g)
    IN /\ last = NoCall
       /\ TotalEdges(Saved(groups, s, out)) <= MaxEdges
       /\ groups' = Saved(groups, s, out)
       /\ last' = Record("add_group", s, g, out)
       /\ UNCHANGED <<password, role, the_tenant, validity, now, users, callers>>

AddUser(s, u) ==
    LET out == add_user(Stored(groups, s), u)
    IN /\ last = NoCall
       /\ TotalEdges(Saved(groups, s, out)) <= MaxEdges
       /\ groups' = Saved(groups, s, out)
       /\ last' = Record("add_user", s, u, out)
       /\ UNCHANGED <<password, role, the_tenant, validity, now, users, callers>>

RemoveGroup(s, g) ==
    LET out == remove_group(Stored(groups, s), g)
    IN /\ last = NoCall
       /\ groups' = Saved(groups, s, out)
       /\ last' = Record("remove_group", s, g, out)
       /\ UNCHANGED <<password, role, the_tenant, validity, now, users, callers>>

RemoveUser(s, u) ==
    LET out == remove_user(Stored(groups, s), u)
    IN /\ last = NoCall
       /\ groups' = Saved(groups, s, out)
       /\ last' = Record("remove_user", s, u, out)
       /\ UNCHANGED <<password, role, the_tenant, validity, now, users, callers>>

IsMember(s, u) ==
    /\ last = NoCall
    /\ last' = Record("is_member", s, u, [res |-> is_member(groups, users, Stored(groups, s), u)])
    /\ UNCHANGED <<password, role, the_tenant, validity, now, groups, users, callers>>

\* The caller takes the result of the call; the next call may start.
Return ==
    /\ last # NoCall
    /\ last' = NoCall
    /\ UNCHANGED <<password, role, the_tenant, validity, now, groups, users, callers>>

Next ==
    \/ Return
    \/ \E s \in GroupNames : \E g \in GroupOperands(groups) : AddGroup(s, g)
    \/ \E s \in GroupNames : \E u \in UserOperands : AddUser(s, u)
    \/ \E s \in GroupNames : \E g \in GroupOperands(groups) : RemoveGroup(s, g)
    \/ \E s \in GroupNames : \E u \in UserOperands : RemoveUser(s, u)
    \/ \E s \in GroupNames : \E u \in UserOperands : IsMember(s, u)

Spec == Init /\ [][Next]_vars

\* ------------------------------------------------------------- SpecConc
\* Two callers run add_group on two different groups.  Each loads its own
\* group and the group to nest, runs add_group on what it loaded (the cycle
\* check reads the repository as it is at that moment), then saves its group.
CLoad(c, s, n) ==
    /\ callers[c].pc = "idle"
    /\ s # n
    /\ \A d \in Callers \ {c} : callers[d].self # s
    /\ callers' = [callers EXCEPT ![c] =
                     [pc |-> "loaded", self |-> s, nested |-> Stored(groups, n),
                      members |-> groups[s].members, res |-> "none"]]
    /\ UNCHANGED <<password, role, the_tenant, validity, now, groups, users, last>>

CCheck(c) ==
    /\ callers[c].pc = "loaded"
    /\ LET self == [tenant |-> HomeTenant, name |-> callers[c].self,
                    members |-> callers[c].members]
           out == add_group(groups, self, callers[c].nested)
       IN callers' = [callers EXCEPT ![c].pc = IF out.res = "Ok" THEN "checked" ELSE "failed",
                                     ![c].members = out.members,
                                     ![c].res = out.res]
    /\ UNCHANGED <<password, role, the_tenant, validity, now, groups, users, last>>

CSave(c) ==
    /\ callers[c].pc = "checked"
    /\ groups' = [groups EXCEPT ![callers[c].self].members = callers[c].members]
    /\ callers' = [callers EXCEPT ![c].pc = "done"]
    /\ UNCHANGED <<password, role, the_tenant, validity, now, users, last>>

NextConc ==
    \/ \E c \in Callers : \E s \in GroupNames : \E n \in GroupNames : CLoad(c, s, n)
    \/ \E c \in Callers : CCheck(c)
    \/ \E c \in Callers : CSave(c)

SpecConc == Init /\ [][NextConc]_vars

\* ---------------------------------------------------------------- SpecQ
\* The queries of GroupMemberService and Group::is_member on a repository
\* whose content is arbitrary within the bounds: stored groups with at most
\* MaxEdges members in all, at most one group whose lookup fails (NotFound or
\* another error).  The set of repositories is closed under renaming groups
\* and users, so the queries are made on group 1 and for user 1 only, and only
\* the record of user 1 varies in the user repository.
MemberLists(max) ==
    LET RECURSIVE Lists(_)
        Lists(k) == IF k = 0 THEN {<<>>}
                    ELSE Lists(k - 1) \cup
                         {Append(ms, m) : ms \in {l \in Lists(k - 1) : Len(l) = k - 1},
                                          m \in Members}
    IN {ms \in Lists(max) : \A i, j \in DOMAIN ms : ms[i] = ms[j] => i = j}

\* What the repository may hold under one name, by number of members.
GroupStates(k) ==
    {[status |-> "present", members |-> ms] : ms \in {l \in MemberLists(k) : Len(l) = k}}
    \cup (IF k = 0 THEN {[status |-> st, members |-> <<>>] : st \in {"absent", "faulty"}}
          ELSE {})

RECURSIVE Repos(_, _)
Repos(n, budget) ==
    IF n = 0 THEN {<<>>}
    ELSE UNION {{Append(r, st) : r \in Repos(n - 1, budget - k), st \in GroupStates(k)} :
                   k \in 0..budget}

QInit ==
    /\ groups \in {r \in Repos(NumGroups, MaxEdges) :
                     /\ r[1].status = "present"
                     /\ Cardinality({n \in GroupNames : r[n].status # "present"}) <= 1}
    /\ users \in {[u \in Usernames |-> IF u = 1 THEN st ELSE "enabled"] :
                    st \in {"enabled", "disabled", "absent", "faulty"}}
    /\ last = NoCall
    /\ callers = [c \in Callers |-> NoCaller]
    /\ Idle

QRecord(op, name, arg, res) ==
    [op |-> op, self |-> name, arg |-> arg, res |-> res, before |-> groups[name].members]

QIsMemberGroup(s, m) ==
    /\ last = NoCall
    /\ groups[s].status = "present"
    /\ last' = QRecord("is_member_group", s, m, is_member_group(groups, Stored(groups, s), m))
    /\ UNCHANGED <<password, role, the_tenant, validity, now, groups, users, callers>>

QIsUserInNestedGroup(s, u) ==
    /\ last = NoCall
    /\ groups[s].status = "present"
    /\ last' = QRecord("is_user_in_nested_group", s, u,
                       is_user_in_nested_group(groups, users, Stored(groups, s), u))
    /\ UNCHANGED <<password, role, the_tenant, validity, now, groups, users, callers>>

QConfirmUser(s, u) ==
    /\ last = NoCall
    /\ groups[s].status = "present"
    /\ last' = QRecord("confirm_user", s, u, confirm_user(users, Stored(groups, s), u))
    /\ UNCHANGED <<password, role, the_tenant, validity, now, groups, users, callers>>

QIsMember(s, u) ==
    /\ last = NoCall
    /\ groups[s].status = "present"
    /\ last' = QRecord("is_member", s, u, is_member(groups, users, Stored(groups, s), u))
    /\ UNCHANGED <<password, role, the_tenant, validity, now, groups, users, callers>>

QUsers == {u \in UserOperands : u.username = 1}

QNext ==
    \/ \E m \in Members : QIsMemberGroup(1, m)
    \/ \E u \in QUsers : QIsUserInNestedGroup(1, u)
    \/ \E u \in QUsers : QConfirmUser(1, u)
    \/ \E u \in QUsers : QIsMember(1, u)

SpecQ == QInit /\ [][QNext]_vars

\* ======================================================== claims under Spec
\* The repository as it was before the recorded call: a call saves nothing but
\* the members of the group it was made on.
PreRepo == [groups EXCEPT ![last.self].members = last.before]

SelfUnchanged == groups[last.self].members = last.before

\* Names of the stored groups reachable from group n along Group members.
GroupEdges(repo, n) ==
    {k \in GroupNames : repo[n].status = "present" /\ repo[k].status = "present"
                         /\ Contains(repo[n].members, <<"Group", k>>)}

RECURSIVE ReachFrom(_, _)
ReachFrom(repo, seen) ==
    LET more == seen \cup UNION {GroupEdges(repo, n) : n \in seen}
    IN IF more = seen THEN seen ELSE ReachFrom(repo, more)

Reachable(repo, n) == ReachFrom(repo, GroupEdges(repo, n))

Acyclic(repo) == \A n \in GroupNames : n \notin Reachable(repo, n)

\* C1 as stated: whenever is_member_group(nested, self) answers true, add_group
\* returns the recursion error and leaves self.members as they were.
C1_RecursionWheneverMember ==
    (/\ last.op = "add_group"
     /\ is_member_group(PreRepo, last.arg, <<"Group", last.self>>) = "True")
    => (last.res = "Recursion" /\ SelfUnchanged)

\* C1 amended: for a nested group of the same tenant as self, whenever
\* is_member_group(nested, self) answers true, add_group returns the recursion
\* error and leaves self.members as they were.
C1_RecursionWheneverMemberSameTenant ==
    (/\ last.op = "add_group"
     /\ last.arg.tenant = HomeTenant
     /\ is_member_group(PreRepo, last.arg, <<"Group", last.self>>) = "True")
    => (last.res = "Recursion" /\ SelfUnchanged)

\* An add_group that closes a path of length two was rejected.
C1_Witness ==
    /\ last.op = "add_group"
    /\ last.res = "Recursion"
    /\ last.arg.tenant = HomeTenant
    /\ ~Contains(last.arg.members, <<"Group", last.self>>)

\* C2: no stored group is reachable from itself along Group members, the
\* group that is its own member included.
C2_NoGroupReachesItself == Acyclic(groups)

\* C4: add_user, add_group and is_member with an operand of another tenant
\* return the tenant mismatch error and leave the members unchanged.
C4_TenantMismatch ==
    (/\ last.op \in {"add_user", "add_group", "is_member"}
     /\ last.arg.tenant # HomeTenant)
    => (last.res = "NotEqual" /\ SelfUnchanged)

C4_Witness ==
    /\ last.op = "add_group"
    /\ last.arg.tenant = ForeignTenant
    /\ last.arg.members # <<>>
    /\ last.before # <<>>
    /\ last.res = "NotEqual"

\* C5: add_user succeeds and makes the user a member exactly when the user is
\* of the group's tenant and enabled; a user that is not enabled is refused
\* and the members stay unchanged.
C5_AddUserIffEnabled ==
    last.op = "add_user" =>
      /\ (last.res = "Ok" /\ Contains(groups[last.self].members, <<"User", last.arg.username>>))
            <=> (last.arg.tenant = HomeTenant /\ last.arg.enabled)
      /\ (last.arg.tenant = HomeTenant /\ ~last.arg.enabled)
            => (last.res # "Ok" /\ SelfUnchanged)

NoDuplicates(members) ==
    \A i, j \in DOMAIN members : members[i] = members[j] => i = j

AddedMember ==
    IF last.op = "add_group" THEN <<"Group", last.arg.name>> ELSE <<"User", last.arg.username>>

\* C6: no members list holds two equal entries, and a successful add of a
\* member that is already present leaves the list unchanged.
C6_NoDuplicateMembers ==
    /\ \A n \in GroupNames : NoDuplicates(groups[n].members)
    /\ (/\ last.op \in {"add_user", "add_group"}
        /\ last.res = "Ok"
        /\ Contains(last.before, AddedMember))
       => SelfUnchanged

C6_Witness ==
    /\ last.op = "add_user"
    /\ last.res = "Ok"
    /\ Contains(last.before, <<"User", last.arg.username>>)
    /\ Len(groups[last.self].members) = 1

\* C7: when A has group B, B is stored and has user U, and U is enabled in the
\* snapshot and in the user repository, A.is_member(U) answers Ok(true).
C7_TransitiveMembership ==
    (/\ last.op = "is_member"
     /\ last.arg.tenant = HomeTenant
     /\ last.arg.enabled
     /\ users[last.arg.username] = "enabled"
     /\ \E b \in GroupNames \ {last.self} :
           /\ Contains(groups[last.self].members, <<"Group", b>>)
           /\ groups[b].status = "present"
           /\ Contains(groups[b].members, <<"User", last.arg.username>>))
    => last.res = "True"

\* ==================================================== claim under SpecConc
\* C3: whatever the interleaving of the two callers' load, check and save
\* steps, the graph stored in the repository has no cycle.
C3_StoredGraphAcyclic == Acyclic(groups)

\* ======================================================= claims under SpecQ
\* C8: confirm_user answers Ok(false) when the user repository has no such
\* user, Ok(is_enabled) of the stored user when it has, whatever the snapshot
\* says, and Err when the repository fails otherwise.
C8_ConfirmUser ==
    last.op = "confirm_user" =>
      last.res = CASE users[last.arg.username] = "absent" -> "False"
                   [] users[last.arg.username] = "enabled" -> "True"
                   [] users[last.arg.username] = "disabled" -> "False"
                   [] OTHER -> "RepoError"

C8_Witness ==
    /\ last.op = "confirm_user"
    /\ last.arg.enabled
    /\ users[last.arg.username] = "disabled"
    /\ last.res = "False"

\* The recorded traversal, with the lookups it made.
TraversalRun(repo) ==
    IF last.op = "is_member_group"
    THEN is_member_group_run(repo, Stored(repo, last.self), last.arg)
    ELSE is_user_in_nested_group_run(repo, users, Stored(repo, last.self), last.arg)

RemoveAt(members, i) == SubSeq(members, 1, i - 1) \o SubSeq(members, i + 1, Len(members))

\* Member i of stored group h names a group the repository does not find, and
\* the traversal looks it up (is_member_group compares before it looks up).
Dangling(h, i) ==
    /\ groups[h].status = "present"
    /\ i \in DOMAIN groups[h].members
    /\ groups[h].members[i][1] = "Group"
    /\ groups[groups[h].members[i][2]].status = "absent"
    /\ last.op = "is_member_group" => groups[h].members[i] # last.arg

\* C9: in is_member_group and is_user_in_nested_group a nested group that is
\* not found is skipped, the answer being the one of the same query without
\* that member; a lookup failing otherwise ends the traversal with that error,
\* and is_member_group answers an error in no other case.
C9_LookupFailures ==
    last.op \in {"is_member_group", "is_user_in_nested_group"} =>
      LET run == TraversalRun(groups)
      IN /\ last.res = run.res
         /\ \A h \in GroupNames : \A i \in 1..MaxEdges :
              Dangling(h, i) =>
                TraversalRun([groups EXCEPT ![h].members = RemoveAt(groups[h].members, i)]).res
                  = last.res
         /\ \A j \in DOMAIN run.lookups :
              groups[run.lookups[j]].status = "faulty"
                => (last.res = "RepoError" /\ j = Len(run.lookups))
         /\ (last.op = "is_member_group" /\ last.res \notin {"True", "False", "Diverge"})
              => /\ run.lookups # <<>>
                 /\ groups[run.lookups[Len(run.lookups)]].status = "faulty"

\* A traversal that skipped a group that was not found and went on to a match.
C9_Witness ==
    /\ last.op = "is_member_group"
    /\ last.res = "True"
    /\ TraversalRun(groups).lookups # <<>>
    /\ groups[TraversalRun(groups).lookups[1]].status = "absent"

NoFaultyGroup == \A n \in GroupNames : groups[n].status # "faulty"

\* m is a member of the group, or of a stored group reachable from it.
DirectOrNestedMember(repo, n, m) ==
    \/ Contains(repo[n].members, m)
    \/ \E k \in Reachable(repo, n) : Contains(repo[k].members, m)

\* C10: on an acyclic repository where no lookup fails other than by NotFound,
\* is_member_group answers Ok(true) when the member is a direct member of the
\* group or of a group reachable from it through members that resolve, and
\* Ok(false) otherwise.
C10_IsMemberGroupIsReachability ==
    (last.op = "is_member_group" /\ Acyclic(groups) /\ NoFaultyGroup)
    => last.res = IF DirectOrNestedMember(groups, last.self, last.arg) THEN "True" ELSE "False"

C10_Witness ==
    /\ last.op = "is_member_group"
    /\ Acyclic(groups)
    /\ NoFaultyGroup
    /\ ~Contains(groups[last.self].members, last.arg)
    /\ last.res = "True"

Traversals == {"is_member_group", "is_user_in_nested_group", "is_member"}

\* C11: on an acyclic repository is_member_group, is_user_in_nested_group and
\* Group::is_member return (a traversal nests at most as deep as there are
\* stored groups); a traversal that never returns needs a cycle in the
\* repository.
C11_TraversalTerminatesOnAcyclic ==
    last.op \in Traversals =>
      /\ Acyclic(groups) => last.res # "Diverge"
      /\ last.res = "Diverge" => ~Acyclic(groups)

\* A traversal over an acyclic chain of nested groups that returned.
C11_Witness ==
    /\ last.op = "is_member_group"
    /\ Acyclic(groups)
    /\ NoFaultyGroup
    /\ Len(TraversalRun(groups).lookups) = MaxEdges
    /\ last.res = "False"

\* =================================================================== Role
\* A Role value is [tenant, name, supports_nesting, group]; names are numbers
\* and the backing group's name is the role's name behind the reserved prefix.
ROLE_GROUP_PREFIX == 100
RoleNames == {1}

Role_new(tenant_id, name, supports_nesting) ==
    [tenant |-> tenant_id, name |-> name, supports_nesting |-> supports_nesting,
     group |-> [tenant |-> tenant_id, name |-> ROLE_GROUP_PREFIX + name, members |-> <<>>]]

Role_hydrate(tenant_id, name, supports_nesting, group) ==
    [tenant |-> tenant_id, name |-> name, supports_nesting |-> supports_nesting,
     group |-> group]

assign_group(repo, self, group) ==
    IF is_true(self.supports_nesting) # "Ok"
    THEN [res |-> "NoNesting", members |-> self.group.members]
    ELSE IF equals(group.tenant, self.tenant) # "Ok"
    THEN [res |-> "NotEqual", members |-> self.group.members]
    ELSE add_group(repo, self.group, group)

assign_user(self, user) ==
    IF equals(user.tenant, self.tenant) # "Ok"
    THEN [res |-> "NotEqual", members |-> self.group.members]
    ELSE add_user(self.group, user)

is_in_role(repo, urepo, self, user) == is_member(repo, urepo, self.group, user)

unassign_group(self, group) ==
    IF is_true(self.supports_nesting) # "Ok"
    THEN [res |-> "NoNesting", members |-> self.group.members]
    ELSE IF equals(group.tenant, self.tenant) # "Ok"
    THEN [res |-> "NotEqual", members |-> self.group.members]
    ELSE remove_group(self.group, group)

unassign_user(self, user) ==
    IF equals(user.tenant, self.tenant) # "Ok"
    THEN [res |-> "NotEqual", members |-> self.group.members]
    ELSE remove_user(self.group, user)

\* The groups handed to Role::hydrate: what a role store can hold.
HydratedGroups ==
    {[tenant |-> t, name |-> ROLE_GROUP_PREFIX + n, members |-> ms] :
        t \in Tenants, n \in RoleNames,
        ms \in {<<>>} \cup {<<<<"Group", k>>>> : k \in GroupNames}}

RoleRecord(op, arg, out) ==
    [op |-> op, self |-> role.name, arg |-> arg, res |-> out.res,
     before |-> role.group.members]

\* What the validators say of a text of the given length.
not_empty(length) == IF length = 0 THEN "Required" ELSE "Ok"

max_length(length, max) == IF length > max THEN "TooLong" ELSE "Ok"

validate_name(length) ==
    IF not_empty(length) # "Ok" THEN not_empty(length) ELSE max_length(length, 70)

\* Group::new: set_name, then set_description.
Group_new_result(name_length, description_length) ==
    IF not_empty(name_length) # "Ok" THEN not_empty(name_length)
    ELSE IF max_length(name_length, 70) # "Ok" THEN max_length(name_length, 70)
    ELSE IF not_empty(description_length) # "Ok" THEN not_empty(description_length)
    ELSE max_length(description_length, 255)

\* Lengths of "ROLE-INTERNAL-GROUP: " and of "Role backing group for ".
ROLE_GROUP_PREFIX_LEN == 21
GROUP_DESCRIPTION_PREFIX_LEN == 23

\* Role::new for a name of the given length and no description: the backing
\* group is built first, from the formatted name and description.
Role_new_result(length) ==
    LET nested_group == Group_new_result(ROLE_GROUP_PREFIX_LEN + length,
                                         GROUP_DESCRIPTION_PREFIX_LEN + length)
    IN IF nested_group # "Ok" THEN nested_group ELSE validate_name(length)

\* Lengths of the role names tried: around the limits of the two validations.
NameLengths == {0, 1, 49, 50, 70, 71}

RoleNew(t, n, length, sn) ==
    /\ last = NoCall
    /\ role' = IF Role_new_result(length) = "Ok" THEN Role_new(t, n, sn) ELSE role
    /\ last' = [op |-> "Role::new", self |-> n, arg |-> [tenant |-> t, length |-> length],
                res |-> Role_new_result(length), before |-> <<>>]
    /\ UNCHANGED <<password, groups, users, callers, the_tenant, validity, now>>

RoleHydrate(t, n, sn, g) ==
    /\ last = NoCall
    /\ role' = Role_hydrate(t, n, sn, g)
    /\ last' = [op |-> "Role::hydrate", self |-> n, arg |-> g, res |-> "Ok",
                before |-> <<>>]
    /\ UNCHANGED <<password, groups, users, callers, the_tenant, validity, now>>

AssignGroup(g) ==
    LET out == assign_group(groups, role, g)
    IN /\ last = NoCall
       /\ role # NoRole
       /\ Len(out.members) <= MaxEdges
       /\ role' = [role EXCEPT !.group.members = out.members]
       /\ last' = RoleRecord("assign_group", g, out)
       /\ UNCHANGED <<password, groups, users, callers, the_tenant, validity, now>>

AssignUser(u) ==
    LET out == assign_user(role, u)
    IN /\ last = NoCall
       /\ role # NoRole
       /\ Len(out.members) <= MaxEdges
       /\ role' = [role EXCEPT !.group.members = out.members]
       /\ last' = RoleRecord("assign_user", u, out)
       /\ UNCHANGED <<password, groups, users, callers, the_tenant, validity, now>>

UnassignGroup(g) ==
    LET out == unassign_group(role, g)
    IN /\ last = NoCall
       /\ role # NoRole
       /\ Len(out.members) <= MaxEdges
       /\ role' = [role EXCEPT !.group.members = out.members]
       /\ last' = RoleRecord("unassign_group", g, out)
       /\ UNCHANGED <<password, groups, users, callers, the_tenant, validity, now>>

UnassignUser(u) ==
    LET out == unassign_user(role, u)
    IN /\ last = NoCall
       /\ role # NoRole
       /\ Len(out.members) <= MaxEdges
       /\ role' = [role EXCEPT !.group.members = out.members]
       /\ last' = RoleRecord("unassign_user", u, out)
       /\ UNCHANGED <<password, groups, users, callers, the_tenant, validity, now>>

IsInRole(u) ==
    /\ last = NoCall
    /\ role # NoRole
    /\ last' = RoleRecord("is_in_role", u, [res |-> is_in_role(groups, users, role, u)])
    /\ UNCHANGED <<password, groups, users, callers, role, the_tenant, validity, now>>

\* A stored group takes the role's backing group as a member.
NestRole(s) ==
    LET out == add_group(groups, Stored(groups, s), role.group)
    IN /\ last = NoCall
       /\ role # NoRole
       /\ TotalEdges(Saved(groups, s, out)) <= MaxEdges
       /\ groups' = Saved(groups, s, out)
       /\ last' = Record("add_group", s, role.group, out)
       /\ UNCHANGED <<password, users, callers, role, the_tenant, validity, now>>

RoleNext ==
    \/ Return
    \/ \E t \in Tenants, n \in RoleNames, length \in NameLengths, sn \in BOOLEAN :
          RoleNew(t, n, length, sn)
    \/ \E t \in Tenants, n \in RoleNames, sn \in BOOLEAN : \E g \in HydratedGroups :
          RoleHydrate(t, n, sn, g)
    \/ \E g \in GroupOperands(groups) : AssignGroup(g)
    \/ \E u \in UserOperands : AssignUser(u)
    \/ \E g \in GroupOperands(groups) : UnassignGroup(g)
    \/ \E u \in UserOperands : UnassignUser(u)
    \/ \E u \in UserOperands : IsInRole(u)
    \/ \E s \in GroupNames : NestRole(s)

SpecRole == Init /\ [][RoleNext]_vars

\* The backing group as it was when the last call started.
GroupBefore == [role.group EXCEPT !.members = last.before]

\* C12: assign_group and unassign_group return an error and leave the backing
\* group as it was when supports_nesting is false; when it is true they give
\* what the backing group's add_group / remove_group gives.
C12_NestingGate ==
    /\ last.op = "assign_group" =>
         IF role.supports_nesting
         THEN LET out == IF equals(last.arg.tenant, role.tenant) # "Ok"
                         THEN [res |-> "NotEqual", members |-> last.before]
                         ELSE add_group(groups, GroupBefore, last.arg)
              IN last.res = out.res /\ role.group.members = out.members
         ELSE last.res # "Ok" /\ role.group.members = last.before
    /\ last.op = "unassign_group" =>
         IF role.supports_nesting
         THEN LET out == IF equals(last.arg.tenant, role.tenant) # "Ok"
                         THEN [res |-> "NotEqual", members |-> last.before]
                         ELSE remove_group(GroupBefore, last.arg)
              IN last.res = out.res /\ role.group.members = out.members
         ELSE last.res # "Ok" /\ role.group.members = last.before

\* C13: the backing group of every Role built by Role::new or Role::hydrate,
\* after any assign / unassign calls, carries the role's tenant id.
C13_RoleGroupTenant ==
    role # NoRole => role.group.tenant = role.tenant

\* ======================================================= temporal validity
\* Instants are the numbers 0..MaxDate; an Option<DateTime> is <<>> for None
\* and <<t>> for Some(t).  A Validity or InvitationValidity is <<"OpenEnded">>,
\* <<"StartingOn", t>>, <<"Until", t>> or <<"Between", t0, t1>>; an Enablement
\* is <<"Disabled">>, <<"Enabled", start, end>> (identity/enablement.rs) or
\* <<"Enabled", validity>> (identity/user/enablement.rs).
MaxDate == 3

Dates == 0..MaxDate
OptDates == {<<>>} \cup {<<t>> : t \in Dates}

validate_max_or_equal(value, max) == IF value >= max THEN "GreatestThan" ELSE "Ok"

validate_max(value, max) == IF value > max THEN "GreatestThan" ELSE "Ok"

validate_min(value, min) == IF value < min THEN "LesserThan" ELSE "Ok"

Validity_new(start_date, end_date) ==
    IF start_date # <<>> /\ end_date # <<>>
    THEN IF validate_max(start_date[1], end_date[1]) # "Ok"
         THEN [res |-> "GreatestThan", value |-> <<>>]
         ELSE [res |-> "Ok", value |-> <<"Between", start_date[1], end_date[1]>>]
    ELSE IF start_date # <<>> THEN [res |-> "Ok", value |-> <<"StartingOn", start_date[1]>>]
    ELSE IF end_date # <<>> THEN [res |-> "Ok", value |-> <<"Until", end_date[1]>>]
    ELSE [res |-> "Ok", value |-> <<"OpenEnded">>]

\* Validity::is_valid: Range*::contains of the instant read from the clock.
is_valid(self, clock) ==
    IF self[1] = "OpenEnded" THEN TRUE
    ELSE IF self[1] = "StartingOn" THEN self[2] <= clock
    ELSE IF self[1] = "Until" THEN clock <= self[2]
    ELSE self[2] <= clock /\ clock <= self[3]

InvitationValidity_new(start_date, end_date) ==
    IF start_date # <<>> /\ end_date # <<>>
    THEN IF validate_max(start_date[1], end_date[1]) # "Ok"
         THEN [res |-> "GreatestThan", value |-> <<>>]
         ELSE [res |-> "Ok", value |-> <<"Between", start_date[1], end_date[1]>>]
    ELSE IF start_date # <<>> THEN [res |-> "Ok", value |-> <<"StartingOn", start_date[1]>>]
    ELSE IF end_date # <<>> THEN [res |-> "Ok", value |-> <<"Until", end_date[1]>>]
    ELSE [res |-> "Ok", value |-> open_ended]

starting_on_unchecked(self, date) ==
    IF self[1] \in {"OpenEnded", "StartingOn"}
    THEN [res |-> "Ok", value |-> <<"StartingOn", date>>]
    ELSE [res |-> "Ok", value |-> <<"Between", date, self[Len(self)]>>]

starting_on(self, date) ==
    IF self[1] \in {"OpenEnded", "StartingOn"}
    THEN [res |-> "Ok", value |-> <<"StartingOn", date>>]
    ELSE LET end == self[Len(self)]
         IN IF validate_max(date, end) # "Ok"
            THEN [res |-> "GreatestThan", value |-> <<>>]
            ELSE [res |-> "Ok", value |-> <<"Between", date, end>>]

until(self, date) ==
    IF self[1] \in {"OpenEnded", "Until"}
    THEN [res |-> "Ok", value |-> <<"Until", date>>]
    ELSE LET start == self[2]
         IN IF validate_min(date, start) # "Ok"
            THEN [res |-> "LesserThan", value |-> <<>>]
            ELSE [res |-> "Ok", value |-> <<"Between", start, date>>]

is_available_open_end(self, clock1, clock2) ==
    IF self[1] = "OpenEnded" THEN TRUE
    ELSE IF self[1] = "StartingOn" THEN self[2] <= clock1
    ELSE IF self[1] = "Until" THEN self[2] > clock1
    ELSE self[2] <= clock1 /\ self[3] > clock2

\* InvitationValidity::is_available reads the clock once per comparison:
\* clock1 for the start, clock2 for the end of Between.
is_available(self, clock1, clock2) ==
    IF self[1] = "OpenEnded" THEN TRUE
    ELSE IF self[1] = "StartingOn" THEN self[2] <= clock1
    ELSE IF self[1] = "Until" THEN self[2] >= clock1
    ELSE self[2] <= clock1 /\ self[3] >= clock2

\* The InvitationValidity declared in registration_invitation.rs.
ri_starting_on(self, date) ==
    IF self[1] \in {"OpenEnded", "StartingOn"}
    THEN [res |-> "Ok", value |-> <<"StartingOn", date>>]
    ELSE LET end == self[Len(self)]
         IN IF date > end
            THEN [res |-> "InvalidStartDate", value |-> <<>>]
            ELSE [res |-> "Ok", value |-> <<"Between", date, end>>]

ri_until(self, date) ==
    IF self[1] \in {"OpenEnded", "Until"}
    THEN [res |-> "Ok", value |-> <<"Until", date>>]
    ELSE LET start == self[2]
         IN IF date < start
            THEN [res |-> "InvalidEndDate", value |-> <<>>]
            ELSE [res |-> "Ok", value |-> <<"Between", start, date>>]

ri_is_available(self, clock1, clock2) ==
    IF self[1] = "OpenEnded" THEN TRUE
    ELSE IF self[1] = "StartingOn" THEN self[2] <= clock1
    ELSE IF self[1] = "Until" THEN self[2] >= clock1
    ELSE self[2] <= clock1 /\ self[3] >= clock2

\* identity/enablement.rs
Enablement_new(enabled, start, end) ==
    IF start # <<>> /\ end # <<>> /\ validate_max(start[1], end[1]) # "Ok"
    THEN [res |-> "GreatestThan", value |-> <<>>]
    ELSE [res |-> "Ok",
          value |-> IF enabled THEN <<"Enabled", start, end>> ELSE <<"Disabled">>]

is_time_expired(self, clock) ==
    IF self[1] = "Enabled"
    THEN IF self[2] # <<>> THEN self[2][1] > clock
         ELSE IF self[3] # <<>> THEN self[3][1] < clock
         ELSE FALSE
    ELSE FALSE

is_enabled(self, clock) ==
    IF self[1] = "Enabled" THEN ~is_time_expired(self, clock) ELSE FALSE

\* identity/user/enablement.rs
user_Enablement_new(enabled, v) ==
    IF enabled THEN <<"Enabled", v>> ELSE <<"Disabled">>

user_is_time_expired(self, clock) ==
    IF self[1] = "Enabled" THEN ~is_valid(self[2], clock) ELSE FALSE

user_is_enabled(self, clock) ==
    IF self[1] = "Enabled" THEN ~user_is_time_expired(self, clock) ELSE FALSE

\* Every value of the two validity enums (their variants are public).
Validities ==
    {<<"OpenEnded">>} \cup {<<"StartingOn", t>> : t \in Dates}
      \cup {<<"Until", t>> : t \in Dates}
      \cup {<<"Between", t0, t1>> : t0 \in Dates, t1 \in Dates}

Bool(b) == IF b THEN "True" ELSE "False"

\* The clock may move on between two reads of one call.
Later == {t \in Dates : now <= t /\ t <= now + 1}

VRecord(op, self, arg, res, value) ==
    [op |-> op, self |-> 0, arg |-> arg, res |-> res, before |-> self, value |-> value]

Tick ==
    /\ now < MaxDate
    /\ now' = now + 1
    /\ UNCHANGED <<password, groups, users, callers, role, the_tenant, validity, last>>

ValidityNew(start, end) ==
    LET out == Validity_new(start, end)
    IN /\ last = NoCall
       /\ last' = VRecord("Validity::new", <<>>, [start |-> start, end |-> end],
                          out.res, out.value)
       /\ UNCHANGED <<password, groups, users, callers, role, the_tenant, validity, now>>

InvitationValidityNew(start, end) ==
    LET out == InvitationValidity_new(start, end)
    IN /\ last = NoCall
       /\ last' = VRecord("InvitationValidity::new", <<>>, [start |-> start, end |-> end],
                          out.res, out.value)
       /\ UNCHANGED <<password, groups, users, callers, role, the_tenant, validity, now>>

\* The holder of a validity replaces it by the value a successful call returns.
StartingOn(date) ==
    LET out == starting_on(validity, date)
    IN /\ last = NoCall
       /\ validity' = IF out.res = "Ok" THEN out.value ELSE validity
       /\ last' = VRecord("starting_on", validity, [date |-> date], out.res, out.value)
       /\ UNCHANGED <<password, groups, users, callers, role, the_tenant, now>>

Until(date) ==
    LET out == until(validity, date)
    IN /\ last = NoCall
       /\ validity' = IF out.res = "Ok" THEN out.value ELSE validity
       /\ last' = VRecord("until", validity, [date |-> date], out.res, out.value)
       /\ UNCHANGED <<password, groups, users, callers, role, the_tenant, now>>

RiStartingOn(date) ==
    LET out == ri_starting_on(validity, date)
    IN /\ last = NoCall
       /\ validity' = IF out.res = "Ok" THEN out.value ELSE validity
       /\ last' = VRecord("ri_starting_on", validity, [date |-> date], out.res, out.value)
       /\ UNCHANGED <<password, groups, users, callers, role, the_tenant, now>>

RiUntil(date) ==
    LET out == ri_until(validity, date)
    IN /\ last = NoCall
       /\ validity' = IF out.res = "Ok" THEN out.value ELSE validity
       /\ last' = VRecord("ri_until", validity, [date |-> date], out.res, out.value)
       /\ UNCHANGED <<password, groups, users, callers, role, the_tenant, now>>

IsValid(v) ==
    /\ last = NoCall
    /\ last' = VRecord("is_valid", v, [clock1 |-> now, clock2 |-> now],
                       Bool(is_valid(v, now)), <<>>)
    /\ UNCHANGED <<password, groups, users, callers, role, the_tenant, validity, now>>

IsAvailable(v, clock2) ==
    /\ last = NoCall
    /\ now' = clock2
    /\ last' = VRecord("is_available", v, [clock1 |-> now, clock2 |-> clock2],
                       Bool(is_available(v, now, clock2)), <<>>)
    /\ UNCHANGED <<password, groups, users, callers, role, the_tenant, validity>>

RiIsAvailable(v, clock2) ==
    /\ last = NoCall
    /\ now' = clock2
    /\ last' = VRecord("ri_is_available", v, [clock1 |-> now, clock2 |-> clock2],
                       Bool(ri_is_available(v, now, clock2)), <<>>)
    /\ UNCHANGED <<password, groups, users, callers, role, the_tenant, validity>>

EnablementNew(enabled, start, end) ==
    LET out == Enablement_new(enabled, start, end)
    IN /\ last = NoCall
       /\ last' = VRecord("Enablement::new", <<>>,
                          [enabled |-> enabled, start |-> start, end |-> end],
                          out.res, out.value)
       /\ UNCHANGED <<password, groups, users, callers, role, the_tenant, validity, now>>

IsEnabled(enabled, start, end) ==
    LET out == Enablement_new(enabled, start, end)
    IN /\ last = NoCall
       /\ out.res = "Ok"
       /\ last' = VRecord("is_enabled", out.value, [clock1 |-> now, clock2 |-> now],
                          Bool(is_enabled(out.value, now)), <<>>)
       /\ UNCHANGED <<password, groups, users, callers, role, the_tenant, validity, now>>

UserIsEnabled(enabled, start, end) ==
    LET v == Validity_new(start, end)
    IN /\ last = NoCall
       /\ v.res = "Ok"
       /\ last' = VRecord("user_is_enabled", user_Enablement_new(enabled, v.value),
                          [clock1 |-> now, clock2 |-> now],
                          Bool(user_is_enabled(user_Enablement_new(enabled, v.value), now)),
                          <<>>)
       /\ UNCHANGED <<password, groups, users, callers, role, the_tenant, validity, now>>

\* Validity::start_date / Validity::end_date, as Option values.
Validity_start_date_of_starting_on(self) ==
    IF self[1] = "StartingOn" THEN <<self[2]>> ELSE <<>>

Validity_start_date(self) ==
    IF self[1] = "OpenEnded" THEN <<>>
    ELSE IF self[1] = "StartingOn" THEN <<self[2]>>
    ELSE IF self[1] = "Until" THEN <<>>
    ELSE <<self[2]>>

Validity_end_date(self) ==
    IF self[1] = "OpenEnded" THEN <<>>
    ELSE IF self[1] = "StartingOn" THEN <<>>
    ELSE IF self[1] = "Until" THEN <<self[2]>>
    ELSE <<self[3]>>

\* The (valid_from, until) columns written for a validity.
Row_from(v) == [valid_from |-> Validity_start_date(v), until |-> Validity_end_date(v)]

\* The validity rebuilt from a row read back.
Row_try_into(row) == Validity_new(row.valid_from, row.until)

\* A validity built by Validity::new is stored and read back.
StoreAndHydrate(start, end) ==
    LET v == Validity_new(start, end)
        out == Row_try_into(Row_from(v.value))
    IN /\ last = NoCall
       /\ v.res = "Ok"
       /\ last' = VRecord("store_and_hydrate", v.value, Row_from(v.value), out.res, out.value)
       /\ UNCHANGED <<password, groups, users, callers, role, the_tenant, validity, now>>

VNext ==
    \/ Return
    \/ Tick
    \/ \E start \in OptDates, end \in OptDates : StoreAndHydrate(start, end)
    \/ \E start \in OptDates, end \in OptDates : ValidityNew(start, end)
    \/ \E start \in OptDates, end \in OptDates : InvitationValidityNew(start, end)
    \/ \E date \in Dates : StartingOn(date)
    \/ \E date \in Dates : Until(date)
    \/ \E date \in Dates : RiStartingOn(date)
    \/ \E date \in Dates : RiUntil(date)
    \/ \E v \in Validities : IsValid(v)
    \/ \E v \in Validities : \E clock2 \in Later : IsAvailable(v, clock2)
    \/ \E v \in Validities : \E clock2 \in Later : RiIsAvailable(v, clock2)
    \/ \E enabled \in BOOLEAN, start \in OptDates, end \in OptDates :
          EnablementNew(enabled, start, end)
    \/ \E enabled \in BOOLEAN, start \in OptDates, end \in OptDates :
          IsEnabled(enabled, start, end)
    \/ \E enabled \in BOOLEAN, start \in OptDates, end \in OptDates :
          UserIsEnabled(enabled, start, end)

SpecValidity == Init /\ [][VNext]_vars

\* start_date() / end_date() of a validity, as Option values.
start_date(v) == IF v[1] \in {"StartingOn", "Between"} THEN <<v[2]>> ELSE <<>>

end_date(v) == IF v[1] \in {"Until", "Between"} THEN <<v[Len(v)]>> ELSE <<>>

\* The instant lies inside the window of the two optional bounds.
InWindow(start, end, instant) ==
    /\ start # <<>> => start[1] <= instant
    /\ end # <<>> => instant <= end[1]

\* C14: Validity::new and InvitationValidity::new fail exactly when both bounds
\* are given and start > end; otherwise the variant is the one the given bounds
\* select, start = end being accepted as Between.
C14_NewFailsIffStartAfterEnd ==
    last.op \in {"Validity::new", "InvitationValidity::new"} =>
      LET start == last.arg.start
          end == last.arg.end
      IN /\ (last.res # "Ok") <=> (start # <<>> /\ end # <<>> /\ start[1] > end[1])
         /\ last.res = "Ok" =>
              last.value = IF start = <<>> /\ end = <<>> THEN <<"OpenEnded">>
                           ELSE IF end = <<>> THEN <<"StartingOn", start[1]>>
                           ELSE IF start = <<>> THEN <<"Until", end[1]>>
                           ELSE <<"Between", start[1], end[1]>>

\* Validity::new with start = end returned Between.
C14_Witness ==
    /\ last.op = "Validity::new"
    /\ last.arg.start # <<>>
    /\ last.arg.start = last.arg.end
    /\ last.res = "Ok"
    /\ last.value[1] = "Between"

\* C15: is_valid and is_available answer whether the instant read from the
\* clock lies in the window, both bounds inclusive: OpenEnded always,
\* StartingOn(t) iff now >= t, Until(t) iff now <= t, Between(t0, t1) iff
\* t0 <= now <= t1.  (is_available reads the clock once per comparison; the
\* answer is that of one of the instants read, and of both when they agree.)
C15_ValidIffInWindow ==
    last.op \in {"is_valid", "is_available", "ri_is_available"} =>
      LET v == last.before
          Valid(instant) ==
            IF v[1] = "OpenEnded" THEN TRUE
            ELSE IF v[1] = "StartingOn" THEN instant >= v[2]
            ELSE IF v[1] = "Until" THEN instant <= v[2]
            ELSE v[2] <= instant /\ instant <= v[3]
      IN \E instant \in {last.arg.clock1, last.arg.clock2} :
            last.res = Bool(Valid(instant))

\* is_available of a Between asked at its end instant answered true.
C15_Witness ==
    /\ last.op = "is_available"
    /\ last.before[1] = "Between"
    /\ last.before[2] < last.before[3]
    /\ last.arg.clock1 = last.before[3]
    /\ last.arg.clock2 = last.before[3]
    /\ last.res = "True"

\* C16: a validity built from open_ended() by successful starting_on / until
\* calls has start <= end when it has both; starting_on with a date after the
\* current end and until with a date before the current start return an error
\* and the validity they were called on stays as it was.
C16_NarrowingKeepsOrder ==
    /\ validity[1] = "Between" => validity[2] <= validity[3]
    /\ (/\ last.op \in {"starting_on", "ri_starting_on"}
        /\ end_date(last.before) # <<>>
        /\ last.arg.date > end_date(last.before)[1])
         => (last.res # "Ok" /\ validity = last.before)
    /\ (/\ last.op \in {"until", "ri_until"}
        /\ start_date(last.before) # <<>>
        /\ last.arg.date < start_date(last.before)[1])
         => (last.res # "Ok" /\ validity = last.before)

\* A starting_on after the end of a Between was refused.
C16_Witness ==
    /\ last.op = "starting_on"
    /\ last.before[1] = "Between"
    /\ last.arg.date > last.before[3]
    /\ last.res = "GreatestThan"
    /\ validity = last.before

\* C17: is_enabled is true exactly for an Enabled value whose window holds the
\* current instant: start <= now when a start is set and now <= end when an
\* end is set, both when both are set; Disabled is never enabled.
C17_EnabledIffInWindow ==
    /\ last.op = "is_enabled" =>
         last.res = Bool(/\ last.before[1] = "Enabled"
                         /\ InWindow(last.before[2], last.before[3], last.arg.clock1))
    /\ last.op = "user_is_enabled" =>
         last.res = Bool(/\ last.before[1] = "Enabled"
                         /\ InWindow(start_date(last.before[2]), end_date(last.before[2]),
                                     last.arg.clock1))

\* ================================================================== Tenant
\* A RegistrationInvitation is [id, description, validity]; identifiers are
\* strings.  The clock of a tenant's history has a past instant 0 and a
\* present instant 1.
MaxInvitations == 3

\* The ids InvitationId::random() hands out, in the order it hands them out.
InvitationIds == <<"i1", "i2", "i3", "i4", "i5", "i6", "i7", "i8">>

\* Descriptions callers offer: a plain text, and a text that reads like an id.
Descriptions == {"D", "i1"}

Identifiers == Descriptions \cup {"i2"}

\* The functions handed to redefine_invitation_as.
Redefiners == {"until_past", "starting_on_present", "open_ended"}

PastInstant == 0
PresentInstant == 1

redefiner_fn(redefiner, v) ==
    IF redefiner = "until_past" THEN ri_until(v, PastInstant)
    ELSE IF redefiner = "starting_on_present" THEN ri_starting_on(v, PresentInstant)
    ELSE [res |-> "Ok", value |-> open_ended]

\* InvitationId::random(): an id no invitation and no description carries.
random(invitations) ==
    LET used == {invitations[i].id : i \in DOMAIN invitations}
                  \cup {invitations[i].description : i \in DOMAIN invitations}
                  \cup Descriptions
        free == {k \in DOMAIN InvitationIds : InvitationIds[k] \notin used}
    IN InvitationIds[CHOOSE k \in free : \A j \in free : k <= j]

RegistrationInvitation_new(invitations, description) ==
    [id |-> random(invitations), description |-> description, validity |-> open_ended]

is_identified_by(self, identifier) ==
    self.id = identifier \/ self.description = identifier

\* Position of the first invitation the identifier names, 0 for None.
invitation(self, identifier) ==
    LET found == {i \in DOMAIN self.invitations :
                    is_identified_by(self.invitations[i], identifier)}
    IN IF found = {} THEN 0 ELSE CHOOSE i \in found : \A j \in found : i <= j

assert_active_always_ok(self) == "Ok"

assert_active(self) == IF self.status = "Active" THEN "Ok" ELSE "NotActive"

is_registration_available_through(self, identifier, clock) ==
    IF assert_active(self) # "Ok" THEN "NotActive"
    ELSE LET i == invitation(self, identifier)
         IN IF i # 0 THEN Bool(ri_is_available(self.invitations[i].validity, clock, clock))
            ELSE "False"

\* Result, the invitations afterwards and the position of the invitation
\* handed back.
offer_invitation(self, description, clock) ==
    IF assert_active(self) # "Ok"
    THEN [res |-> "NotActive", invitations |-> self.invitations, value |-> 0]
    ELSE IF is_registration_available_through(self, description, clock) = "True"
    THEN [res |-> "InvitationExists", invitations |-> self.invitations, value |-> 0]
    ELSE LET pushed == Append(self.invitations,
                              RegistrationInvitation_new(self.invitations, description))
         IN [res |-> "Ok", invitations |-> pushed,
             value |-> invitation([self EXCEPT !.invitations = pushed], description)]

redefine_invitation_as(self, identifier, redefiner) ==
    IF assert_active(self) # "Ok"
    THEN [res |-> "NotActive", invitations |-> self.invitations, value |-> 0]
    ELSE LET i == invitation(self, identifier)
         IN IF i # 0
            THEN LET out == redefiner_fn(redefiner, self.invitations[i].validity)
                 IN IF out.res = "Ok"
                    THEN [res |-> "Ok",
                          invitations |-> [self.invitations EXCEPT ![i].validity = out.value],
                          value |-> i]
                    ELSE [res |-> "InvalidInvitationValidity",
                          invitations |-> self.invitations, value |-> i]
            ELSE [res |-> "InvitationExists", invitations |-> self.invitations, value |-> 0]

withdraw_invitation_every_match(self, identifier) ==
    IF assert_active(self) # "Ok"
    THEN [res |-> "NotActive", invitations |-> self.invitations, value |-> 0]
    ELSE LET index == invitation(self, identifier)
         IN IF index # 0
            THEN [res |-> "Ok",
                  invitations |-> SelectSeq(self.invitations,
                                            LAMBDA inv : ~is_identified_by(inv, identifier)),
                  value |-> index]
            ELSE [res |-> "InvitationNotFound", invitations |-> self.invitations,
                  value |-> 0]

withdraw_invitation(self, identifier) ==
    IF assert_active(self) # "Ok"
    THEN [res |-> "NotActive", invitations |-> self.invitations, value |-> 0]
    ELSE LET index == invitation(self, identifier)
         IN IF index # 0
            THEN [res |-> "Ok", invitations |-> RemoveAt(self.invitations, index),
                  value |-> index]
            ELSE [res |-> "InvitationNotFound", invitations |-> self.invitations,
                  value |-> 0]

TRecord(op, arg, out) ==
    [op |-> op, self |-> 0, arg |-> arg, res |-> out.res,
     before |-> the_tenant.invitations, value |-> out.value]

Activate ==
    /\ last = NoCall
    /\ the_tenant' = [the_tenant EXCEPT !.status = "Active"]
    /\ last' = TRecord("activate", [clock |-> now], [res |-> "Ok", value |-> 0])
    /\ UNCHANGED <<password, groups, users, callers, role, validity, now>>

Deactivate ==
    /\ last = NoCall
    /\ the_tenant' = [the_tenant EXCEPT !.status = "Inactive"]
    /\ last' = TRecord("deactivate", [clock |-> now], [res |-> "Ok", value |-> 0])
    /\ UNCHANGED <<password, groups, users, callers, role, validity, now>>

IsRegistrationAvailableThrough(identifier) ==
    /\ last = NoCall
    /\ last' = TRecord("is_registration_available_through",
                       [identifier |-> identifier, clock |-> now],
                       [res |-> is_registration_available_through(the_tenant, identifier, now),
                        value |-> 0])
    /\ UNCHANGED <<password, groups, users, callers, role, the_tenant, validity, now>>

OfferInvitation(description) ==
    LET out == offer_invitation(the_tenant, description, now)
    IN /\ last = NoCall
       /\ Len(out.invitations) <= MaxInvitations
       /\ the_tenant' = [the_tenant EXCEPT !.invitations = out.invitations]
       /\ last' = TRecord("offer_invitation", [identifier |-> description, clock |-> now], out)
       /\ UNCHANGED <<password, groups, users, callers, role, validity, now>>

RedefineInvitationAs(identifier, redefiner) ==
    LET out == redefine_invitation_as(the_tenant, identifier, redefiner)
    IN /\ last = NoCall
       /\ the_tenant' = [the_tenant EXCEPT !.invitations = out.invitations]
       /\ last' = TRecord("redefine_invitation_as",
                          [identifier |-> identifier, redefiner |-> redefiner, clock |-> now],
                          out)
       /\ UNCHANGED <<password, groups, users, callers, role, validity, now>>

WithdrawInvitation(identifier) ==
    LET out == withdraw_invitation(the_tenant, identifier)
    IN /\ last = NoCall
       /\ the_tenant' = [the_tenant EXCEPT !.invitations = out.invitations]
       /\ last' = TRecord("withdraw_invitation", [identifier |-> identifier, clock |-> now],
                          out)
       /\ UNCHANGED <<password, groups, users, callers, role, validity, now>>

\* The past instant is over.
Elapse ==
    /\ last = NoCall
    /\ now = PastInstant
    /\ now' = PresentInstant
    /\ UNCHANGED <<password, groups, users, callers, role, the_tenant, validity, last>>

TNext ==
    \/ Return
    \/ Elapse
    \/ Activate
    \/ Deactivate
    \/ \E identifier \in Identifiers : IsRegistrationAvailableThrough(identifier)
    \/ \E description \in Descriptions : OfferInvitation(description)
    \/ \E identifier \in Identifiers : \E redefiner \in Redefiners :
          RedefineInvitationAs(identifier, redefiner)
    \/ \E identifier \in Identifiers : WithdrawInvitation(identifier)

SpecTenant == Init /\ [][TNext]_vars

\* The invitation is available at the instant the last call read.
AvailableAtCall(inv) == ri_is_available(inv.validity, last.arg.clock, last.arg.clock)

\* C18: on an active tenant offer_invitation(d) fails with InvitationExists
\* exactly when some invitation identified by d, by id or by description, is
\* available; otherwise it appends one invitation with description d and
\* OpenEnded validity at the end and leaves the others as they were.
C18_OfferFailsIffAvailable ==
    (last.op = "offer_invitation" /\ the_tenant.status = "Active") =>
      LET before == last.before
          after == the_tenant.invitations
          d == last.arg.identifier
      IN IF \E i \in DOMAIN before : is_identified_by(before[i], d) /\ AvailableAtCall(before[i])
         THEN last.res = "InvitationExists"
         ELSE /\ last.res = "Ok"
              /\ Len(after) = Len(before) + 1
              /\ SubSeq(after, 1, Len(before)) = before
              /\ after[Len(after)].description = d
              /\ after[Len(after)].validity = open_ended

\* C19: after a successful offer_invitation(D) the query
\* is_registration_available_through(D) answers true; after a
\* redefine_invitation_as that leaves the invitation with Until(a past
\* instant), the query by its description answers false.
C19_AvailabilityRoundTrip ==
    /\ (last.op = "offer_invitation" /\ last.res = "Ok") =>
         is_registration_available_through(the_tenant, last.arg.identifier, now) = "True"
    /\ (/\ last.op = "redefine_invitation_as"
        /\ last.res = "Ok"
        /\ the_tenant.invitations[last.value].validity[1] = "Until"
        /\ the_tenant.invitations[last.value].validity[2] < now)
         => is_registration_available_through(
                the_tenant, the_tenant.invitations[last.value].description, now) = "False"

Mutators == {"offer_invitation", "redefine_invitation_as", "withdraw_invitation"}

\* C20: on an Inactive tenant offer_invitation, redefine_invitation_as and
\* withdraw_invitation return NotActive and leave invitations as they were,
\* whatever the argument and the invitations.
C20_InactiveTenantGuard ==
    (last.op \in Mutators /\ the_tenant.status = "Inactive") =>
      /\ last.res = "NotActive"
      /\ the_tenant.invitations = last.before

\* A withdrawal naming an existing invitation was refused on an inactive tenant.
C20_Witness ==
    /\ last.op = "withdraw_invitation"
    /\ the_tenant.status = "Inactive"
    /\ invitation(the_tenant, last.arg.identifier) # 0
    /\ last.res = "NotActive"
    /\ Len(the_tenant.invitations) = MaxInvitations

\* C21: in every state reached from Tenant::new by activate, deactivate,
\* offer_invitation, redefine_invitation_as and withdraw_invitation, with the
\* clock advancing, no two invitations carry the same description and no two
\* carry the same id.
C21_InvitationsUnique ==
    \A i, j \in DOMAIN the_tenant.invitations :
       i # j => /\ the_tenant.invitations[i].description # the_tenant.invitations[j].description
                /\ the_tenant.invitations[i].id # the_tenant.invitations[j].id

\* Positions of the invitations the identifier names.
Matches(invitations, identifier) ==
    {i \in DOMAIN invitations : is_identified_by(invitations[i], identifier)}

\* C22: on an active tenant redefine_invitation_as with an identifier that
\* names no invitation fails with InvitationNotFound and leaves invitations as
\* they were.
C22_RedefineUnknownIsNotFound ==
    (/\ last.op = "redefine_invitation_as"
     /\ the_tenant.status = "Active"
     /\ Matches(last.before, last.arg.identifier) = {})
      => /\ last.res = "InvitationNotFound"
         /\ the_tenant.invitations = last.before

\* C23: on an active tenant withdraw_invitation removes exactly one invitation
\* the identifier names when there is one, the others keeping their content
\* and order; when there is none it returns InvitationNotFound and changes
\* nothing.
C23_WithdrawRemovesOne ==
    (last.op = "withdraw_invitation" /\ the_tenant.status = "Active") =>
      IF Matches(last.before, last.arg.identifier) # {}
      THEN /\ last.res = "Ok"
           /\ \E i \in Matches(last.before, last.arg.identifier) :
                 the_tenant.invitations = RemoveAt(last.before, i)
      ELSE /\ last.res = "InvitationNotFound"
           /\ the_tenant.invitations = last.before

\* A withdrawal by an identifier that named two invitations removed one.
C23_Witness ==
    /\ last.op = "withdraw_invitation"
    /\ last.res = "Ok"
    /\ Cardinality(Matches(last.before, last.arg.identifier)) = 2
    /\ Len(the_tenant.invitations) = Len(last.before) - 1

\* C27: a successful offer_invitation(d) hands back the invitation it has just
\* appended, the last one, with OpenEnded validity, also when an older
\* unavailable invitation with description d is present.
C27_OfferReturnsAppended ==
    (last.op = "offer_invitation" /\ last.res = "Ok") =>
      /\ last.value = Len(the_tenant.invitations)
      /\ the_tenant.invitations[last.value].validity = open_ended

\* C28: right after a successful withdraw_invitation(x) no invitation is
\* identified by x: is_registration_available_through(x) answers false and a
\* second withdraw_invitation(x) answers InvitationNotFound.
C28_WithdrawnIsGone ==
    (last.op = "withdraw_invitation" /\ last.res = "Ok") =>
      /\ Matches(the_tenant.invitations, last.arg.identifier) = {}
      /\ is_registration_available_through(the_tenant, last.arg.identifier, now) = "False"
      /\ withdraw_invitation(the_tenant, last.arg.identifier).res = "InvitationNotFound"

\* The member a remove_user / remove_group call names.
RemovedMember ==
    IF last.op = "remove_user" THEN <<"User", last.arg.username>>
    ELSE <<"Group", last.arg.name>>

\* C24: remove_user and remove_group with an operand of the group's tenant
\* succeed and remove exactly the entry of the operand's variant and name, the
\* other entries keeping their order; a user and a group of one name are
\* different members; when the operand is not a member nothing changes.
C24_RemoveExactlyOperand ==
    (last.op \in {"remove_user", "remove_group"} /\ last.arg.tenant = HomeTenant) =>
      LET before == last.before
          after == groups[last.self].members
          at == {i \in DOMAIN before : before[i] = RemovedMember}
      IN /\ last.res = "Ok"
         /\ IF at = {} THEN after = before
            ELSE \E i \in at : after = RemoveAt(before, i)

\* A user was removed from a group that also holds a group of the same name.
C24_Witness ==
    /\ last.op = "remove_user"
    /\ last.res = "Ok"
    /\ Contains(last.before, <<"User", last.arg.username>>)
    /\ Contains(last.before, <<"Group", last.arg.username>>)
    /\ groups[last.self].members = <<<<"Group", last.arg.username>>>>

\* C26: is_member answers Ok(true) only when the user the repository now
\* holds under (tenant, username) is enabled and is a direct member of the
\* group or of a group reachable from it; a disabled or missing record is
\* never reported as a member, whatever the snapshot says.
C26_MemberOnlyIfEnabledInRepository ==
    (last.op = "is_member" /\ last.res = "True") =>
      /\ users[last.arg.username] = "enabled"
      /\ DirectOrNestedMember(groups, last.self, <<"User", last.arg.username>>)

\* A membership through a nested group was confirmed.
C26_Witness ==
    /\ last.op = "is_member"
    /\ last.res = "True"
    /\ ~Contains(groups[last.self].members, <<"User", last.arg.username>>)
    /\ users[last.arg.username] = "enabled"

\* C29: Role::new succeeds for every role name its own validation accepts
\* (1 to 70 characters): the prefixed name of the backing group never fails
\* the group's limit of 70 characters.
C29_RoleNewAcceptsValidNames ==
    (last.op = "Role::new" /\ validate_name(last.arg.length) = "Ok") => last.res = "Ok"

\* C30: for every Validity v built by Validity::new,
\* Validity::new(v.start_date(), v.end_date()) succeeds and equals v: a
\* validity stored as the (valid_from, until) pair and hydrated back has the
\* same variant and bounds.
C30_ValidityRoundTrip ==
    last.op = "store_and_hydrate" =>
      /\ last.res = "Ok"
      /\ last.value = last.before

\* A Between of one instant came back as it was stored.
C30_Witness ==
    /\ last.op = "store_and_hydrate"
    /\ last.before[1] = "Between"
    /\ last.before[2] = last.before[3]
    /\ last.value = last.before

\* =========================================================== PlainPassword
\* A password is the sequence of its characters, each written as its class:
\* "U" a letter of LETTERS, "L" one of them lowercased, "D" a digit of DIGITS,
\* "S" a symbol of SYMBOLS (all of them one byte long).
STRONG_THRESHOLD == 20

CharClasses == <<"U", "L", "D", "S">>

Count(chars, classes) == Cardinality({i \in DOMAIN chars : chars[i] \in classes})

calculate_strength_late_length(chars) ==
    LET length == Len(chars)
        letter_count == Count(chars, {"U", "L"})
        digit_count == Count(chars, {"D"})
    IN (IF length > 8 THEN 10 + (length - 8) ELSE 0)
         + Count(chars, {"U"}) + Count(chars, {"L"}) + Count(chars, {"S"})
         + (IF letter_count >= 2 /\ digit_count >= 2 THEN letter_count + digit_count ELSE 0)

calculate_strength(chars) ==
    LET length == Len(chars)
        letter_count == Count(chars, {"U", "L"})
        digit_count == Count(chars, {"D"})
        upper_count == Count(chars, {"U"})
        lower_count == Count(chars, {"L"})
        symbol_count == Count(chars, {"S"})
    IN (IF length > 7 THEN 10 + (length - 7) ELSE 0)
         + upper_count + lower_count + symbol_count
         + (IF letter_count >= 2 /\ digit_count >= 2 THEN letter_count + digit_count ELSE 0)

is_strong(chars) == calculate_strength(chars) >= STRONG_THRESHOLD

\* One turn of the loop of PlainPassword::generate: opt picks the class of the
\* character pushed, then the loop condition is computed.
GenerateStep(opt) ==
    /\ last = NoCall
    /\ ~password.is_strong
    /\ LET pushed == Append(password.chars, CharClasses[opt + 1])
       IN password' = [chars |-> pushed,
                       is_strong |-> Len(pushed) > 7 /\ is_strong(pushed)]
    /\ UNCHANGED <<groups, users, callers, role, the_tenant, validity, now, last>>

\* The loop is left and the password handed back.
GenerateReturn ==
    /\ last = NoCall
    /\ password.is_strong
    /\ last' = [op |-> "generate", self |-> 0, arg |-> [length |-> Len(password.chars)],
                res |-> "Ok", before |-> password.chars]
    /\ UNCHANGED <<groups, users, callers, role, the_tenant, validity, now, password>>

PNext ==
    \/ \E opt \in 0..3 : GenerateStep(opt)
    \/ GenerateReturn

SpecPassword == Init /\ [][PNext]_vars

\* C25: PlainPassword::generate terminates: whatever is picked, the loop stops
\* after at most 17 characters, and the password handed back has at least 8
\* characters and is strong (strength >= 20).
C25_GenerateTerminates ==
    /\ Len(password.chars) <= 17
    /\ Len(password.chars) = 17 => password.is_strong
    /\ last.op = "generate" =>
         /\ last.before = password.chars
         /\ Len(last.before) >= 8
         /\ calculate_strength(last.before) >= 20

\* Seventeen digits: the longest password the loop can build was handed back.
C25_Witness ==
    /\ last.op = "generate"
    /\ Len(last.before) = 17
    /\ Count(last.before, {"D"}) = 17

====
